---- MODULE Spec2Model ----
(***************************************************************************)
(* Model of the Google Maps restaurant scraper:                           *)
(*   executeWithRetry            (RetryExecutor)                          *)
(*   RestaurantScraper.scrollToEnd        (FeedScroller)                  *)
(*   RestaurantScraper.scrapeRestaurants  (HarvestSession item loop)      *)
(*   scrapeQuery / scrapeWithConcurrency / main  (BatchOrchestrator)      *)
(* The browser page is an external collaborator: what it answers to a     *)
(* wait, a click or an evaluation is a nondeterministic choice.           *)
(***************************************************************************)
EXTENDS Integers, Sequences, FiniteSets, TLC

(* ------------------------------ bounds -------------------------------- *)
\* largest `retries` argument tried for executeWithRetry on its own
MaxRetries == 4
\* feed heights are drawn from 1..MaxHeight
MaxHeight == 3
\* largest number of feed items the enumeration returns
MaxItems == 3
\* largest query list of a batch run
MaxQueries == 3
\* largest concurrentLimit of a batch run
MaxLimit == 2
\* longest record sequence handed to getUniqueRestaurants
MaxRecords == 3

(* ------------------------- program constants -------------------------- *)
\* the waits inside a retried step: `timeout: 2000 * (retryCount + 1)`
TimeoutStep == 2000
\* executeWithRetry's default `retries = 3`
DefaultRetries == 3
\* scrollToEnd's `const maxAttempts = 50`
maxAttempts == 50

VARIABLES
  \* executeWithRetry
  retries,        \* maxRetries of the running executeWithRetry
  retryCount,     \* its retryCount
  success,        \* its success flag
  rpc,            \* its position: "idle" | "while" | "func" | "delay" | "returned" | "threw"
  calls,          \* number of invocations of func so far
  lastArg,        \* the attempt index handed to the latest func invocation (-1: none)
  func,           \* stand-alone runs: func[k] is whether the k-th invocation succeeds
  \* scrollToEnd
  spc,            \* position inside scrollToEnd
  lastHeight,     \* its lastHeight (0: not measured)
  scrollAttempts, \* its scrollAttempts
  newHeight,      \* its newHeight (0: not measured in this iteration)
  scrolls,        \* number of feed.scrollTo actions performed
  scrollOutcome,  \* how scrollToEnd ended
  feedHeight,     \* page: the feed's current scrollHeight
  endMarker,      \* page: the end-of-list text is rendered and visible
  stableIter,     \* page history: the feed kept its pre-scroll height since the last scroll
  markerAtScroll, \* page history: the marker was visible when the last scroll was done
  \* scrapeRestaurants
  pc,             \* position inside scrapeRestaurants
  nLinks,         \* restaurantLinks.length
  i,              \* loop index, 1-based (0: loop not entered)
  restaurantsData,\* the Dataset: sequence of [item, detail]
  panel,          \* page: 0 = only the list container, k = detail container showing item k
  returned,       \* the value scrapeRestaurants returned (<<>> before it returns)
  attempted,      \* history: items whose loop iteration has begun
  openFailed,     \* history: items whose activation exhausted its retries
  closeTried,     \* history: items for which a close was invoked
  closeFailed,    \* history: items whose close exhausted its retries
  pushLog,        \* history: every record ever appended, in order
  events,         \* history: <<item, what happened to it>> pairs
  \* scrapeQuery / scrapeWithConcurrency / main
  queries,        \* the query list, queries[k] = k-th query's identity
  concurrentLimit,\* scrapeWithConcurrency's concurrentLimit
  chunks,         \* its chunks array
  ci,             \* its chunk loop index i (0-based)
  bpc,            \* its position
  sess,           \* sess[q]: position of query q's scrapeQuery
  tmpFile,        \* tmpFile[q]: index in the artifact path handed to query q (-1: none)
  artifacts,      \* path indices of the artifacts present in TMP_DIR
  mpc,            \* position of main
  cooldowns,      \* history: number of 5000 ms cooldowns that have elapsed
  yield,          \* history: yield[q] is how query q's session ended its try block
  browser,        \* browser[q]: "none" | "open" | "closed", the browser of query q's session
  tmpDir,         \* TMP_DIR exists
  tmpFiles,       \* main's tmpFiles: the directory listing, as path indices
  readPos,        \* number of listed artifacts main has read
  finalOutput,    \* FINAL_OUTPUT has been written
  \* getUniqueRestaurants
  allRestaurants, \* main's allRestaurants: the records of the artifacts in read order
  dpc,            \* position of the dedup run: "idle" | "first" | "second" | "done"
  filterIn,       \* the argument of the running getUniqueRestaurants call
  dpos,           \* number of records its filter callback has visited
  seen,           \* its seen set
  kept,           \* the records its filter has kept so far
  uniqueRestaurants, \* the result of the call on allRestaurants
  dedupAgain,     \* the result of the call on uniqueRestaurants
  \* extractDetailedInfo and the push that follows it
  mainDiv,        \* page: <<controls>> of the second container, <<>> without one
  detailedInfo,   \* <<the object extractDetailedInfo returned>>, <<>> for null
  newItem,        \* <<decamelizeKeys({...detailedInfo, ...briefInfo})>>, <<>> before
  epc,            \* position: "idle" | "evaluate" | "push" | "pushed"
  \* saveToCSV and readCsvFile
  data,           \* saveToCSV's data: a sequence of objects
  csvContent,     \* <<the text written to the file>>, <<>> while there is no file
  readBack,       \* <<the array readCsvFile returned>>, <<>> before
  cpc             \* position: "idle" | "save" | "saved" | "noFile" | "read"

retryVars  == <<retries, retryCount, success, rpc, calls, lastArg, func>>
scrollVars == <<spc, lastHeight, scrollAttempts, newHeight, scrolls, scrollOutcome,
                feedHeight, endMarker, stableIter, markerAtScroll>>
itemVars   == <<pc, nLinks, i, restaurantsData, panel, returned,
                attempted, openFailed, closeTried, closeFailed, pushLog, events>>
mergeVars  == <<tmpDir, tmpFiles, readPos, finalOutput>>
dedupVars  == <<allRestaurants, dpc, filterIn, dpos, seen, kept, uniqueRestaurants,
                dedupAgain>>
orchVars   == <<queries, concurrentLimit, chunks, ci, bpc, sess, tmpFile, artifacts, mpc,
                cooldowns, yield, browser, mergeVars>>
extractVars == <<mainDiv, detailedInfo, newItem, epc>>
csvVars == <<data, csvContent, readBack, cpc>>
batchVars  == <<orchVars, dedupVars, extractVars, csvVars>>
vars == <<retryVars, scrollVars, itemVars, batchVars>>

(* ========================= executeWithRetry =========================== *)

DedupIdle ==
  /\ allRestaurants = <<>> /\ dpc = "idle" /\ filterIn = <<>> /\ dpos = 0
  /\ seen = {} /\ kept = <<>> /\ uniqueRestaurants = <<>> /\ dedupAgain = <<>>

OrchIdle ==
  /\ queries = <<>> /\ concurrentLimit = 1 /\ chunks = <<>> /\ ci = 0 /\ bpc = "idle"
  /\ sess = [q \in 1..MaxQueries |-> "idle"]
  /\ tmpFile = [q \in 1..MaxQueries |-> -1]
  /\ artifacts = {} /\ mpc = "idle"
  /\ cooldowns = 0
  /\ yield = [q \in 1..MaxQueries |-> "none"]
  /\ browser = [q \in 1..MaxQueries |-> "none"]
  /\ tmpDir = FALSE /\ tmpFiles = <<>> /\ readPos = 0 /\ finalOutput = FALSE

ExtractIdle ==
  /\ mainDiv = <<>> /\ detailedInfo = <<>> /\ newItem = <<>> /\ epc = "idle"

CsvIdle ==
  /\ data = <<>> /\ csvContent = <<>> /\ readBack = <<>> /\ cpc = "idle"

BatchIdle == OrchIdle /\ DedupIdle /\ ExtractIdle /\ CsvIdle

RetryIdle ==
  /\ retries = 0 /\ retryCount = 0 /\ success = FALSE /\ rpc = "idle"
  /\ calls = 0 /\ lastArg = -1

\* executeWithRetry({func, retries}): maxRetries = retries; retryCount = 0; success = false
RetryCall(r) ==
  /\ retries' = r
  /\ retryCount' = 0
  /\ success' = FALSE
  /\ rpc' = "while"
  /\ calls' = 0
  /\ lastArg' = -1
  /\ UNCHANGED func

RetryGuardOffByOne == ~success /\ retryCount <= retries
\* the loop condition: while (!success && retryCount < maxRetries)
RetryGuard == ~success /\ retryCount < retries

\* the loop test; entering the body invokes func(retryCount), leaving it returns success
RetryWhile ==
  /\ rpc = "while"
  /\ IF RetryGuard
       THEN /\ rpc' = "func"
            /\ calls' = calls + 1
            /\ lastArg' = retryCount
       ELSE /\ rpc' = "returned"
            /\ UNCHANGED <<calls, lastArg>>
  /\ UNCHANGED <<retries, retryCount, success, func>>

\* await func(retryCount) resolved: success = true
RetryFuncOk ==
  /\ rpc = "func"
  /\ success' = TRUE
  /\ rpc' = "while"
  /\ UNCHANGED <<retries, retryCount, calls, lastArg, func>>

RetryCatchRethrow ==
  /\ rpc = "func"
  /\ rpc' = "threw"
  /\ UNCHANGED <<retries, retryCount, success, calls, lastArg, func>>
\* await func(retryCount) rejected: the catch logs, retryCount++, then delays
RetryCatch ==
  /\ rpc = "func"
  /\ retryCount' = retryCount + 1
  /\ rpc' = "delay"
  /\ UNCHANGED <<retries, success, calls, lastArg, func>>

\* await delay(1000) elapsed
RetryDelay ==
  /\ rpc = "delay"
  /\ rpc' = "while"
  /\ UNCHANGED <<retries, retryCount, success, calls, lastArg, func>>

\* the caller takes the settled result and the executor's locals go away
RetryReset ==
  /\ retries' = 0 /\ retryCount' = 0 /\ success' = FALSE /\ rpc' = "idle"
  /\ calls' = 0 /\ lastArg' = -1
  /\ UNCHANGED func

(* ============================ scrollToEnd ============================= *)

Heights == 1..MaxHeight
ScrollActive == {"scrolling", "waitGrowth", "checkEnd", "measure", "finalCheck"}
IsDone(o) == o \in {"DoneMarker", "DoneStable"}
IsError(o) == o \in {"ErrInit", "ErrGrowth", "ErrEvaluate"}

ScrollIdle ==
  /\ spc = "idle" /\ lastHeight = 0 /\ scrollAttempts = 0 /\ newHeight = 0
  /\ scrolls = 0 /\ feedHeight = 1 /\ endMarker = FALSE
  /\ stableIter = FALSE /\ markerAtScroll = FALSE

\* every exit of scrollToEnd is a normal return: `return`, falling off the loop,
\* or the catch that only logs "Error during scrolling"
ScrollReturn(outcome) ==
  /\ spc' = "returned"
  /\ scrollOutcome' = outcome

ScrollLoopGuardOffByOne(a) == a <= maxAttempts
\* while (scrollAttempts < maxAttempts)
ScrollLoopGuard(a) == a < maxAttempts

\* the loop test with scrollAttempts = a: enter the body (the scroll evaluation is
\* issued) or fall off the loop ("Reached maximum scroll attempts")
ScrollLoopTest(a) ==
  IF ScrollLoopGuard(a)
    THEN spc' = "scrolling" /\ UNCHANGED scrollOutcome
    ELSE ScrollReturn("Exhausted")

\* waitForSelector(feed) and waitForFunction(feed has children) both resolve:
\* the feed is mounted, with some height
ScrollInit ==
  /\ spc = "init"
  /\ spc' = "measure0"
  /\ \E h \in Heights : feedHeight' = h
  /\ UNCHANGED <<lastHeight, scrollAttempts, newHeight, scrolls, scrollOutcome,
                 endMarker, stableIter, markerAtScroll>>

\* one of the two initial waits times out: caught by scrollToEnd's catch
ScrollInitTimeout ==
  /\ spc = "init"
  /\ ScrollReturn("ErrInit")
  /\ UNCHANGED <<lastHeight, scrollAttempts, newHeight, scrolls,
                 feedHeight, endMarker, stableIter, markerAtScroll>>

\* let lastHeight = feed.scrollHeight; scrollAttempts = 0; first loop test
ScrollMeasure0 ==
  /\ spc = "measure0"
  /\ lastHeight' = feedHeight
  /\ scrollAttempts' = 0
  /\ ScrollLoopTest(0)
  /\ UNCHANGED <<newHeight, scrolls, feedHeight, endMarker, stableIter, markerAtScroll>>

\* feed.scrollTo(0, feed.scrollHeight * 2) ran in the page; the growth wait starts
ScrollAction ==
  /\ spc = "scrolling"
  /\ scrolls' = scrolls + 1
  /\ spc' = "waitGrowth"
  /\ stableIter' = (feedHeight = lastHeight)
  /\ markerAtScroll' = endMarker
  /\ UNCHANGED <<lastHeight, scrollAttempts, newHeight, scrollOutcome, feedHeight, endMarker>>

\* waitForFunction(feed.scrollHeight > prevHeight) sees the feed taller than lastHeight
ScrollWaitGrowthOk ==
  /\ spc = "waitGrowth"
  /\ feedHeight > lastHeight
  /\ spc' = "checkEnd"
  /\ UNCHANGED <<lastHeight, scrollAttempts, newHeight, scrolls, scrollOutcome,
                 feedHeight, endMarker, stableIter, markerAtScroll>>

\* the growth wait has no .catch: its timeout throws into scrollToEnd's catch
ScrollWaitGrowthTimeout ==
  /\ spc = "waitGrowth"
  /\ ~(feedHeight > lastHeight)
  /\ ScrollReturn("ErrGrowth")
  /\ UNCHANGED <<lastHeight, scrollAttempts, newHeight, scrolls,
                 feedHeight, endMarker, stableIter, markerAtScroll>>

\* endOfList evaluated: return when the marker is visible, else measure newHeight
ScrollCheckEnd ==
  /\ spc = "checkEnd"
  /\ IF endMarker
       THEN ScrollReturn("DoneMarker")
       ELSE spc' = "measure" /\ UNCHANGED scrollOutcome
  /\ UNCHANGED <<lastHeight, scrollAttempts, newHeight, scrolls,
                 feedHeight, endMarker, stableIter, markerAtScroll>>

\* lastHeight = newHeight; scrollAttempts++; next loop test
ScrollAdvance(h) ==
  /\ lastHeight' = h
  /\ scrollAttempts' = scrollAttempts + 1
  /\ newHeight' = 0
  /\ ScrollLoopTest(scrollAttempts + 1)

\* newHeight evaluated: equal to lastHeight starts the delayed re-check (the
\* loading-indicator wait swallows its timeout), otherwise the iteration ends
ScrollMeasure ==
  /\ spc = "measure"
  /\ IF feedHeight = lastHeight
       THEN /\ newHeight' = feedHeight
            /\ spc' = "finalCheck"
            /\ UNCHANGED <<lastHeight, scrollAttempts, scrollOutcome>>
       ELSE ScrollAdvance(feedHeight)
  /\ UNCHANGED <<scrolls, feedHeight, endMarker, stableIter, markerAtScroll>>

\* the stability path returning without comparing the re-measurement
FinalCheckStopsIgnoringRecheck(h) == newHeight = lastHeight

\* if (finalCheck === lastHeight) return
FinalCheckStops(h) == h = lastHeight

\* finalCheck evaluated: "No more results to load" or the iteration ends
ScrollFinalCheck ==
  /\ spc = "finalCheck"
  /\ IF FinalCheckStops(feedHeight)
       THEN /\ ScrollReturn("DoneStable")
            /\ UNCHANGED <<lastHeight, scrollAttempts, newHeight>>
       ELSE ScrollAdvance(newHeight)
  /\ UNCHANGED <<scrolls, feedHeight, endMarker, stableIter, markerAtScroll>>

\* a page.evaluate of scrollToEnd rejects: caught by scrollToEnd's catch
ScrollEvaluateError ==
  /\ spc \in {"measure0", "scrolling", "checkEnd", "measure", "finalCheck"}
  /\ ScrollReturn("ErrEvaluate")
  /\ UNCHANGED <<lastHeight, scrollAttempts, newHeight, scrolls,
                 feedHeight, endMarker, stableIter, markerAtScroll>>

\* page: the feed's scrollHeight changes (content loads, a spinner comes or goes)
FeedChange ==
  /\ spc \in ScrollActive
  /\ \E h \in Heights \ {feedHeight} : feedHeight' = h
  /\ stableIter' = FALSE
  /\ UNCHANGED <<spc, lastHeight, scrollAttempts, newHeight, scrolls, scrollOutcome,
                 endMarker, markerAtScroll>>

\* page: the end-of-list text is rendered
MarkerShow ==
  /\ spc \in ScrollActive
  /\ ~endMarker
  /\ endMarker' = TRUE
  /\ UNCHANGED <<spc, lastHeight, scrollAttempts, newHeight, scrolls, scrollOutcome,
                 feedHeight, stableIter, markerAtScroll>>

(* ========================= scrapeRestaurants ========================== *)

Items == 1..MaxItems
RetryPcs == {"scrollIntoView", "click", "close"}
RecordItems(rs) == {rs[k].item : k \in 1..Len(rs)}

\* return restaurantsData (line 318)
SessionReturn ==
  /\ pc' = "returned"
  /\ returned' = restaurantsData
  /\ i' = 0

OuterCatchRethrow ==
  /\ pc' = "threw"
  /\ UNCHANGED <<returned, i>>
\* the outer catch logs "Error scraping restaurants" and falls through to the return
OuterCatch == SessionReturn

\* for (...; i < restaurantLinks.length; i++): the body of item k begins, or the
\* loop is over and the Dataset is returned
LoopTo(k, n) ==
  IF k <= n
    THEN /\ i' = k
         /\ pc' = "brief"
         /\ attempted' = attempted \cup {k}
         /\ UNCHANGED returned
    ELSE /\ SessionReturn
         /\ UNCHANGED attempted

\* a `continue` that starts the loop over from the first item
ContinueRescans == LoopTo(1, nLinks)

\* `continue`, reached directly or through the inner catch (the console.error
\* of a failed step names an undefined variable and throws into that catch)
Continue == LoopTo(i + 1, nLinks)

\* scrapeRestaurants() is called: restaurantsData = []; await this.scrollToEnd()
SessionStart ==
  /\ pc = "start"
  /\ pc' = "scrollToEnd"
  /\ spc' = "init"
  /\ UNCHANGED <<nLinks, i, restaurantsData, panel, returned,
                 attempted, openFailed, closeTried, closeFailed, pushLog, events>>
  /\ UNCHANGED <<lastHeight, scrollAttempts, newHeight, scrolls, scrollOutcome,
                 feedHeight, endMarker, stableIter, markerAtScroll>>
  /\ UNCHANGED <<retryVars, batchVars>>

\* a scrollToEnd whose failure reaches the session's catch instead of being
\* absorbed: the session returns without enumerating
ScrollReturnedFailureToCatch ==
  /\ pc = "scrollToEnd"
  /\ spc = "returned"
  /\ IF IsError(scrollOutcome)
       THEN OuterCatch /\ UNCHANGED <<nLinks, attempted>>
       ELSE pc' = "enumerate" /\ UNCHANGED <<nLinks, i, returned, attempted>>
  /\ spc' = "idle" /\ lastHeight' = 0 /\ scrollAttempts' = 0 /\ newHeight' = 0
  /\ scrolls' = 0 /\ feedHeight' = 1 /\ endMarker' = FALSE
  /\ stableIter' = FALSE /\ markerAtScroll' = FALSE
  /\ UNCHANGED scrollOutcome
  /\ UNCHANGED <<restaurantsData, panel, openFailed, closeTried, closeFailed, pushLog, events>>
  /\ UNCHANGED <<retryVars, batchVars>>

\* scrollToEnd has returned: its frame is gone and page.$$(...) is issued
ScrollReturned ==
  /\ pc = "scrollToEnd"
  /\ spc = "returned"
  /\ pc' = "enumerate"
  /\ spc' = "idle" /\ lastHeight' = 0 /\ scrollAttempts' = 0 /\ newHeight' = 0
  /\ scrolls' = 0 /\ feedHeight' = 1 /\ endMarker' = FALSE
  /\ stableIter' = FALSE /\ markerAtScroll' = FALSE
  /\ UNCHANGED scrollOutcome
  /\ UNCHANGED <<nLinks, i, restaurantsData, panel, returned,
                 attempted, openFailed, closeTried, closeFailed, pushLog, events>>
  /\ UNCHANGED <<retryVars, batchVars>>

\* page.$$ resolves with n links; the loop starts
EnumerateOk ==
  /\ pc = "enumerate"
  /\ \E n \in 0..MaxItems :
       /\ nLinks' = n
       /\ LoopTo(1, n)
  /\ UNCHANGED <<restaurantsData, panel, openFailed, closeTried, closeFailed, pushLog, events>>
  /\ UNCHANGED <<scrollVars, retryVars, batchVars>>

\* page.$$ rejects: outer catch
EnumerateThrow ==
  /\ pc = "enumerate"
  /\ OuterCatch
  /\ UNCHANGED <<nLinks, restaurantsData, panel,
                 attempted, openFailed, closeTried, closeFailed, pushLog, events>>
  /\ UNCHANGED <<scrollVars, retryVars, batchVars>>

\* restaurantLinks[i].evaluate(extractBriefInfo) resolves; the scroll-into-view
\* executeWithRetry is called
BriefOk ==
  /\ pc = "brief"
  /\ pc' = "scrollIntoView"
  /\ RetryCall(DefaultRetries)
  /\ UNCHANGED <<nLinks, i, restaurantsData, panel, returned,
                 attempted, openFailed, closeTried, closeFailed, pushLog, events>>
  /\ UNCHANGED <<scrollVars, batchVars>>

\* restaurantLinks[i].evaluate(extractBriefInfo) rejects: line 228 is outside the
\* inner try, so the outer catch takes it
BriefThrow ==
  /\ pc = "brief"
  /\ OuterCatch
  /\ events' = events \cup {<<i, "briefFailed">>}
  /\ UNCHANGED <<nLinks, restaurantsData, panel,
                 attempted, openFailed, closeTried, closeFailed, pushLog>>
  /\ UNCHANGED <<scrollVars, retryVars, batchVars>>

\* executeWithRetry's loop test inside the session
SessRetryWhile ==
  /\ pc \in RetryPcs
  /\ RetryWhile
  /\ closeTried' = IF pc = "close" /\ rpc' = "func" THEN closeTried \cup {i} ELSE closeTried
  /\ UNCHANGED <<pc, nLinks, i, restaurantsData, panel, returned,
                 attempted, openFailed, closeFailed, pushLog, events>>
  /\ UNCHANGED <<scrollVars, batchVars>>

\* executeWithRetry's delay(1000) inside the session
SessRetryDelay ==
  /\ pc \in RetryPcs
  /\ RetryDelay
  /\ UNCHANGED <<itemVars, scrollVars, batchVars>>

\* scrollIntoView + waitForFunction(link inside the viewport) resolve
ViewOk ==
  /\ pc = "scrollIntoView"
  /\ RetryFuncOk
  /\ UNCHANGED <<itemVars, scrollVars, batchVars>>

\* the evaluation rejects or the viewport wait times out
ViewFail ==
  /\ pc = "scrollIntoView"
  /\ RetryCatch
  /\ UNCHANGED <<itemVars, scrollVars, batchVars>>

\* the activation being called whatever the scroll-into-view executor returned
ViewDoneAlwaysClicks ==
  /\ pc = "scrollIntoView"
  /\ rpc = "returned"
  /\ pc' = "click"
  /\ RetryCall(DefaultRetries)
  /\ events' = events \cup {<<i, IF success THEN "viewOk" ELSE "viewFailed">>}
  /\ UNCHANGED <<i, returned, attempted>>
  /\ UNCHANGED <<nLinks, restaurantsData, panel, openFailed, closeTried, closeFailed, pushLog>>
  /\ UNCHANGED <<scrollVars, batchVars>>

\* scrollingSuccess: call the activation executeWithRetry, or continue
ViewDone ==
  /\ pc = "scrollIntoView"
  /\ rpc = "returned"
  /\ IF success
       THEN /\ pc' = "click"
            /\ RetryCall(DefaultRetries)
            /\ events' = events \cup {<<i, "viewOk">>}
            /\ UNCHANGED <<i, returned, attempted>>
       ELSE /\ Continue
            /\ RetryReset
            /\ events' = events \cup {<<i, "viewFailed">>}
  /\ UNCHANGED <<nLinks, restaurantsData, panel, openFailed, closeTried, closeFailed, pushLog>>
  /\ UNCHANGED <<scrollVars, batchVars>>

\* click() resolves and waitForFunction(mainDivs.length >= 2) resolves: the page
\* shows a second container, item i's or one left open earlier
ClickOk ==
  /\ pc = "click"
  /\ RetryFuncOk
  /\ \E p \in {i, panel} \ {0} : panel' = p
  /\ UNCHANGED <<pc, nLinks, i, restaurantsData, returned,
                 attempted, openFailed, closeTried, closeFailed, pushLog, events>>
  /\ UNCHANGED <<scrollVars, batchVars>>

\* click() rejects, or the wait times out with no second container (which may
\* still appear after the timeout)
ClickFail ==
  /\ pc = "click"
  /\ RetryCatch
  /\ \E p \in {i, panel} : panel' = p
  /\ UNCHANGED <<pc, nLinks, i, restaurantsData, returned,
                 attempted, openFailed, closeTried, closeFailed, pushLog, events>>
  /\ UNCHANGED <<scrollVars, batchVars>>

OpenFailedStillExtracts ==
  /\ pc' = "extract"
  /\ openFailed' = openFailed \cup {i}
  /\ UNCHANGED <<i, returned, attempted>>
\* if (!restaurantClickingSuccess) { console.error(...); continue; }
OpenFailed ==
  /\ Continue
  /\ openFailed' = openFailed \cup {i}

\* restaurantClickingSuccess: evaluate extractDetailedInfo, or skip the item
ClickDone ==
  /\ pc = "click"
  /\ rpc = "returned"
  /\ IF success
       THEN /\ pc' = "extract"
            /\ events' = events \cup {<<i, "clickOk">>}
            /\ UNCHANGED <<i, returned, attempted, openFailed>>
       ELSE OpenFailed /\ UNCHANGED events
  /\ RetryReset
  /\ UNCHANGED <<nLinks, restaurantsData, panel, closeTried, closeFailed, pushLog>>
  /\ UNCHANGED <<scrollVars, batchVars>>

\* an extraction that resolves with a detail but appends nothing
ExtractOkNoPush ==
  /\ pc = "extract"
  /\ panel # 0
  /\ pc' = "close"
  /\ RetryCall(DefaultRetries)
  /\ UNCHANGED <<nLinks, i, panel, returned, attempted, openFailed, closeTried, closeFailed>>
  /\ UNCHANGED <<restaurantsData, pushLog, events>>
  /\ UNCHANGED <<scrollVars, batchVars>>

\* extractDetailedInfo returns the detail of the second container:
\* restaurantsData.push(newItem), then the close executeWithRetry is called
ExtractOk ==
  /\ pc = "extract"
  /\ panel # 0
  /\ restaurantsData' = Append(restaurantsData, [item |-> i, detail |-> panel])
  /\ pushLog' = Append(pushLog, [item |-> i, detail |-> panel])
  /\ pc' = "close"
  /\ RetryCall(DefaultRetries)
  /\ UNCHANGED <<nLinks, i, panel, returned, attempted, openFailed, closeTried, closeFailed,
                 events>>
  /\ UNCHANGED <<scrollVars, batchVars>>

\* extractDetailedInfo finds no second container (if (!mainDiv) return null):
\* nothing is pushed, the close executeWithRetry is still called
ExtractNull ==
  /\ pc = "extract"
  /\ panel' = 0
  /\ pc' = "close"
  /\ RetryCall(DefaultRetries)
  /\ events' = events \cup {<<i, "extractFailed">>}
  /\ UNCHANGED <<nLinks, i, restaurantsData, returned,
                 attempted, openFailed, closeTried, closeFailed, pushLog>>
  /\ UNCHANGED <<scrollVars, batchVars>>

\* page.evaluate(extractDetailedInfo) rejects: inner catch, continue
ExtractThrow ==
  /\ pc = "extract"
  /\ Continue
  /\ events' = events \cup {<<i, "extractFailed">>}
  /\ UNCHANGED <<nLinks, restaurantsData, panel,
                 openFailed, closeTried, closeFailed, pushLog>>
  /\ UNCHANGED <<scrollVars, retryVars, batchVars>>

\* the Close button is clicked and waitForFunction(mainDivs.length === 1) resolves
CloseOk ==
  /\ pc = "close"
  /\ panel # 0
  /\ RetryFuncOk
  /\ panel' = 0
  /\ UNCHANGED <<pc, nLinks, i, restaurantsData, returned,
                 attempted, openFailed, closeTried, closeFailed, pushLog, events>>
  /\ UNCHANGED <<scrollVars, batchVars>>

\* mainDivs[1] is missing (TypeError) or the wait times out (the container may
\* still go away after the timeout)
CloseFail ==
  /\ pc = "close"
  /\ RetryCatch
  /\ \E p \in {0, panel} : panel' = p
  /\ UNCHANGED <<pc, nLinks, i, restaurantsData, returned,
                 attempted, openFailed, closeTried, closeFailed, pushLog, events>>
  /\ UNCHANGED <<scrollVars, batchVars>>

CloseFailedDropsRecord ==
  /\ Continue
  /\ closeFailed' = closeFailed \cup {i}
  /\ restaurantsData' = SelectSeq(restaurantsData, LAMBDA r : r.item # i)
\* if (!closingSuccess) { console.error(...); continue; }
CloseFailed ==
  /\ Continue
  /\ closeFailed' = closeFailed \cup {i}
  /\ UNCHANGED restaurantsData

\* closingSuccess: end of the loop body either way
CloseDone ==
  /\ pc = "close"
  /\ rpc = "returned"
  /\ IF success
       THEN Continue /\ UNCHANGED <<closeFailed, restaurantsData>>
       ELSE CloseFailed
  /\ RetryReset
  /\ UNCHANGED <<nLinks, panel, openFailed, closeTried, pushLog, events>>
  /\ UNCHANGED <<scrollVars, batchVars>>

\* the steps of scrollToEnd and of the page under it, inside the session
Scrolling(step) ==
  /\ pc = "scrollToEnd"
  /\ step
  /\ UNCHANGED <<itemVars, retryVars, batchVars>>

(* ------------------------- HarvestSession spec ------------------------ *)

NoFunc == [k \in 1..(MaxRetries + 1) |-> FALSE]

Init ==
  /\ RetryIdle /\ func = NoFunc
  /\ ScrollIdle /\ scrollOutcome = "none"
  /\ pc = "start" /\ nLinks = 0 /\ i = 0 /\ restaurantsData = <<>> /\ panel = 0
  /\ returned = <<>> /\ attempted = {} /\ openFailed = {} /\ closeTried = {}
  /\ closeFailed = {} /\ pushLog = <<>> /\ events = {}
  /\ BatchIdle

Next ==
  \/ SessionStart
  \/ Scrolling(ScrollInit)
  \/ Scrolling(ScrollInitTimeout)
  \/ Scrolling(ScrollMeasure0)
  \/ Scrolling(ScrollAction)
  \/ Scrolling(ScrollWaitGrowthOk)
  \/ Scrolling(ScrollWaitGrowthTimeout)
  \/ Scrolling(ScrollCheckEnd)
  \/ Scrolling(ScrollMeasure)
  \/ Scrolling(ScrollFinalCheck)
  \/ Scrolling(ScrollEvaluateError)
  \/ Scrolling(FeedChange)
  \/ Scrolling(MarkerShow)
  \/ ScrollReturned
  \/ EnumerateOk
  \/ EnumerateThrow
  \/ BriefOk
  \/ BriefThrow
  \/ SessRetryWhile
  \/ SessRetryDelay
  \/ ViewOk
  \/ ViewFail
  \/ ViewDone
  \/ ClickOk
  \/ ClickFail
  \/ ClickDone
  \/ ExtractOk
  \/ ExtractNull
  \/ ExtractThrow
  \/ CloseOk
  \/ CloseFail
  \/ CloseDone

Spec == Init /\ [][Next]_vars

(* -------------------- executeWithRetry on its own --------------------- *)
\* One call executeWithRetry({func, retries}) for every `retries` in 0..MaxRetries
\* and every behaviour of func over its invocations.

SessionIdle ==
  /\ pc = "idle" /\ nLinks = 0 /\ i = 0 /\ restaurantsData = <<>> /\ panel = 0
  /\ returned = <<>> /\ attempted = {} /\ openFailed = {} /\ closeTried = {}
  /\ closeFailed = {} /\ pushLog = <<>> /\ events = {}

InitRetry ==
  /\ \E r \in 0..MaxRetries :
       /\ retries = r /\ retryCount = 0 /\ success = FALSE /\ rpc = "while"
       /\ calls = 0 /\ lastArg = -1
  /\ func \in [1..(MaxRetries + 1) -> BOOLEAN]
  /\ ScrollIdle /\ scrollOutcome = "none"
  /\ SessionIdle
  /\ BatchIdle

AloneWhile == RetryWhile /\ UNCHANGED <<scrollVars, itemVars, batchVars>>
AloneFuncOk == rpc = "func" /\ func[calls] /\ RetryFuncOk /\ UNCHANGED <<scrollVars, itemVars, batchVars>>
AloneFuncFail == rpc = "func" /\ ~func[calls] /\ RetryCatch /\ UNCHANGED <<scrollVars, itemVars, batchVars>>
AloneDelay == RetryDelay /\ UNCHANGED <<scrollVars, itemVars, batchVars>>

NextRetry ==
  \/ AloneWhile
  \/ AloneFuncOk
  \/ AloneFuncFail
  \/ AloneDelay

SpecRetry == InitRetry /\ [][NextRetry]_vars

\* func fails each of its first k invocations
FailsFirst(k) == \A j \in 1..k : ~func[j]

\* C1: with `retries` attempts allowed, an action failing every invocation is
\* invoked exactly `retries` times and the result is false; an action failing its
\* first k < retries invocations and then succeeding is invoked exactly k+1 times,
\* the result is true, and it is never invoked again after its first success.
C1_RetryBound ==
  /\ \A k \in 0..MaxRetries :
       (k < retries /\ FailsFirst(k) /\ func[k + 1]) => calls <= k + 1
  /\ rpc = "returned" =>
       /\ FailsFirst(retries) => (calls = retries /\ ~success)
       /\ \A k \in 0..MaxRetries :
            (k < retries /\ FailsFirst(k) /\ func[k + 1]) => (calls = k + 1 /\ success)

C1_Witness ==
  /\ rpc = "returned" /\ retries = 3
  /\ FailsFirst(2) /\ func[3] /\ calls = 3 /\ success

\* C2: whatever the action does at each invocation, executeWithRetry never
\* settles by throwing: it is running or it has returned its boolean success flag,
\* which is true exactly when some invocation succeeded.
C2_NeverThrows ==
  /\ rpc \in {"while", "func", "delay", "returned"}
  /\ success \in BOOLEAN
  /\ rpc = "returned" => (success <=> \E k \in 1..calls : func[k])

C2_Witness ==
  /\ rpc = "returned" /\ retryCount >= 1 /\ ~success /\ retries >= 1

(* ------------------- claims about the HarvestSession ------------------ *)

\* C3: for a feed whose height stops growing (it keeps its pre-scroll height
\* through the post-scroll measurement and the delayed re-measurement), the
\* scroller ends in Done (not the error path, not Exhausted) in that iteration,
\* and never exceeds maxAttempts scrolls.  Page-evaluation and feed-mount
\* failures are set aside.
C3_StableFeedEndsDone ==
  (spc = "returned" /\ stableIter /\ scrollOutcome \notin {"ErrInit", "ErrEvaluate"})
    => (IsDone(scrollOutcome) /\ scrolls <= maxAttempts)

\* C4: when the end-of-list marker is visible after a scroll, the scroller ends in
\* Done without another scroll, whether or not the feed grew on that scroll.
\* Page-evaluation and feed-mount failures are set aside.
C4_MarkerEndsDone ==
  (spc = "returned" /\ markerAtScroll /\ scrollOutcome \notin {"ErrInit", "ErrEvaluate"})
    => IsDone(scrollOutcome)

\* C5: at most 50 scroll actions are performed in a run; the scroller stops in
\* Exhausted only after exactly 50 iterations, by a normal return, and the session
\* then goes on to the enumeration and the item loop (it never throws).
C5_ScrollBound ==
  /\ scrolls <= maxAttempts
  /\ scrollAttempts <= maxAttempts
  /\ (spc = "returned" /\ scrollOutcome = "Exhausted")
       => (scrolls = maxAttempts /\ scrollAttempts = maxAttempts /\ pc = "scrollToEnd")
  /\ scrollOutcome = "Exhausted"
       => pc \in {"scrollToEnd", "enumerate", "brief", "scrollIntoView", "click",
                  "extract", "close", "returned"}
  /\ (scrollOutcome = "Exhausted" /\ pc = "scrollToEnd") => ENABLED ScrollReturned

C5_Witness ==
  /\ scrollOutcome = "Exhausted"
  /\ pc = "returned"
  /\ Len(returned) >= 1

\* C6: an item whose activation exhausted its retries has no record in the
\* Dataset, no close was invoked for it, and the loop went on to the next feed
\* item when there is one.
C6_SkipOnOpenFailure ==
  \A k \in openFailed :
    /\ k \notin RecordItems(restaurantsData)
    /\ k \notin RecordItems(pushLog)
    /\ k \notin closeTried
    /\ k < nLinks => (k + 1) \in attempted
    /\ k = nLinks => pc = "returned"

C6_Witness ==
  \E k \in openFailed :
    /\ k < nLinks
    /\ (k + 1) \in RecordItems(restaurantsData)

\* C7: an item whose close exhausted its retries keeps the record that was
\* appended for it, and the loop went on to the next feed item when there is one.
C7_CloseFailureKeepsRecord ==
  \A k \in closeFailed :
    /\ k \in RecordItems(pushLog) => k \in RecordItems(restaurantsData)
    /\ (pc = "returned" /\ k \in RecordItems(pushLog)) => k \in RecordItems(returned)
    /\ k < nLinks => (k + 1) \in attempted
    /\ k = nLinks => pc = "returned"

C7_Witness ==
  \E k \in closeFailed :
    /\ k \in RecordItems(restaurantsData)
    /\ k < nLinks
    /\ (k + 1) \in attempted

\* C8: an error raised while processing one feed item never ends the item loop:
\* when the session has returned, every enumerated feed item was attempted.
C8_EveryItemAttempted ==
  pc = "returned" => attempted = 1..nLinks

\* C9: scrapeRestaurants never throws, and what it returns is exactly the records
\* appended so far, in order, also when the enumeration or an item raised.
C9_NeverPropagates ==
  /\ pc # "threw"
  /\ pc = "returned" => returned = pushLog

C9_Witness ==
  /\ pc = "returned"
  /\ Len(returned) >= 1
  /\ attempted # 1..nLinks

\* the timeout of the wait inside the running attempt: 2000 * (retryCount + 1),
\* retryCount being the argument func was invoked with
WaitTimeout == TimeoutStep * (lastArg + 1)

\* what the session did with item k
Did(k, what) == <<k, what>> \in events

\* item k was scrolled into view, activated, extracted and closed successfully
ItemSucceeded(k) ==
  /\ Did(k, "viewOk") /\ Did(k, "clickOk")
  /\ ~Did(k, "extractFailed") /\ ~Did(k, "briefFailed")
  /\ k \in closeTried /\ k \notin closeFailed

\* C24: when the feed enumerates n items and every item's scroll-into-view,
\* activation, extraction and close succeed, the returned Dataset has exactly n
\* records, the k-th being the record of the k-th feed item with that item's detail.
C24_AllSucceedGivesAll ==
  (pc = "returned" /\ \A k \in 1..nLinks : ItemSucceeded(k)) =>
    /\ Len(returned) = nLinks
    /\ \A k \in 1..nLinks : returned[k].item = k /\ returned[k].detail = k

\* three items, all successful, gave three records
C24_Witness ==
  /\ pc = "returned" /\ nLinks = 3
  /\ \A k \in 1..3 : ItemSucceeded(k)
  /\ Len(returned) = 3

\* the items whose opening (scroll-into-view or activation) exhausted its retries
OpenFailures == {k \in 1..nLinks : Did(k, "viewFailed") \/ k \in openFailed}
\* the items whose brief or detailed extraction failed
ExtractFailures == {k \in 1..nLinks : Did(k, "extractFailed") \/ Did(k, "briefFailed")}

\* C25: the returned Dataset has as many records as feed items were enumerated,
\* minus the items whose opening exhausted its retries, minus the items whose
\* extraction failed; an item whose panel never opened has no record.
C25_CountOfRecords ==
  pc = "returned" =>
    /\ Len(returned) = nLinks - Cardinality(OpenFailures) - Cardinality(ExtractFailures)
    /\ \A k \in OpenFailures : k \notin RecordItems(returned)

\* C27: the Dataset is append-only: every step leaves restaurantsData unchanged
\* or appends one record at its end.
C27_AppendOnly ==
  [][\/ restaurantsData' = restaurantsData
     \/ /\ Len(restaurantsData') = Len(restaurantsData) + 1
        /\ SubSeq(restaurantsData', 1, Len(restaurantsData)) = restaurantsData]_vars

\* a session returned two records although one item's close failed after its
\* record was appended and another item never opened
C27_Witness ==
  /\ pc = "returned" /\ Len(returned) = 2
  /\ closeFailed # {} /\ openFailed # {}
  /\ \E k \in closeFailed : returned[1].item = k

\* C29: scroll-into-view, activation and close each run under their own
\* executeWithRetry with a budget of 3; the k-th attempt of a step receives the
\* index k-1 (0, 1, 2) and waits 2000*(index+1) ms; activation runs only after
\* the scroll-into-view succeeded and close only after the activation succeeded.
C29_ThreeRetriedSteps ==
  /\ pc \in RetryPcs =>
       /\ retries = 3
       /\ calls <= 3
       /\ rpc = "func" =>
            /\ lastArg = calls - 1
            /\ lastArg \in {0, 1, 2}
            /\ WaitTimeout = 2000 * calls
            /\ WaitTimeout \in {2000, 4000, 6000}
  /\ pc = "click" => Did(i, "viewOk")
  /\ pc = "close" => (Did(i, "viewOk") /\ Did(i, "clickOk"))
  /\ \A k \in closeTried : Did(k, "clickOk")

\* the third close attempt of an item, after two failed ones, waits 6000 ms
C29_Witness ==
  /\ pc = "close" /\ rpc = "func"
  /\ calls = 3 /\ lastArg = 2 /\ WaitTimeout = 6000
  /\ Did(i, "viewOk") /\ Did(i, "clickOk")

\* C30: scrollToEnd ends by the stability path only from the delayed re-check and
\* only when the immediate measurement (newHeight) and the re-measurement both
\* equal the pre-scroll height (lastHeight); when the re-measurement differs the
\* re-check does not stop: one iteration is counted and the loop test follows
\* (another scroll, or the 50-iteration exit).
C30_StabilityNeedsBothMeasurements ==
  [][/\ (scrollOutcome' = "DoneStable" /\ scrollOutcome # "DoneStable") =>
          (spc = "finalCheck" /\ newHeight = lastHeight /\ feedHeight = lastHeight)
     /\ (spc = "finalCheck" /\ spc' # "finalCheck" /\ feedHeight # lastHeight
           /\ scrollOutcome' # "ErrEvaluate") =>
          /\ scrollOutcome' # "DoneStable"
          /\ scrollAttempts' = scrollAttempts + 1
          /\ lastHeight' = lastHeight
          /\ (spc' = "scrolling" \/ scrollOutcome' = "Exhausted")]_vars

\* after at least one counted iteration the scroller stopped by the stability
\* path, both measurements equal to the pre-scroll height
C30_Witness ==
  /\ scrollOutcome = "DoneStable" /\ spc = "returned"
  /\ scrollAttempts >= 1
  /\ newHeight = lastHeight /\ feedHeight = lastHeight

\* C31: every record appended for item i carries the detail of a panel that
\* item i's own activation opened: no second container is shown when the
\* activation of an item begins, and no record pairs an item with the detail of
\* another item's panel.
C31_RecordFromOwnPanel ==
  /\ (pc = "click" /\ calls = 0) => panel = 0
  /\ \A k \in 1..Len(pushLog) : pushLog[k].detail = pushLog[k].item

\* C33: a failure during scrolling (initial wait, growth wait, page evaluation)
\* ends scrollToEnd by a normal return; the session leaves the scrolling step
\* only towards the enumeration, whatever way scrolling ended, never towards
\* its own catch; and once it has returned, every enumerated item was
\* attempted up to the first brief-info rejection, if any, after a failed
\* scroll as after any other stop.
C33_ScrollFailureAbsorbed ==
  /\ [](IsError(scrollOutcome) /\ pc = "scrollToEnd" => spc = "returned")
  /\ [][pc = "scrollToEnd" /\ pc' # "scrollToEnd"
          => spc = "returned" /\ pc' = "enumerate" /\ returned' = <<>>]_vars
  /\ [](pc = "returned" =>
          \A k \in 1..nLinks :
            k \in attempted \/ \E j \in 1..(k - 1) : Did(j, "briefFailed"))

\* after the growth wait timed out, the session enumerated a feed of several
\* items and returned a record for each of them
C33_Witness ==
  /\ pc = "returned"
  /\ scrollOutcome = "ErrGrowth"
  /\ nLinks >= 2 /\ Len(returned) = nLinks

(* ============ scrapeQuery / scrapeWithConcurrency / main ============== *)
\* Inside the batch a HarvestSession is seen from outside: scrapeRestaurants
\* always returns a Dataset (C9), empty or not.

Settled == {"resolved", "rejected"}
QueryIds == 1..MaxQueries

\* queries.slice(a, b) with the end one element too far
SliceInclusive(s, a, b) ==
  [k \in 1..((IF b + 1 < Len(s) THEN b + 1 ELSE Len(s)) - a) |-> s[a + k]]

\* Array.prototype.slice(a, b) on a sequence, 0-based, end clamped
Slice(s, a, b) ==
  [k \in 1..((IF b < Len(s) THEN b ELSE Len(s)) - a) |-> s[a + k]]

RECURSIVE ChunksFromStepOne(_, _, _)
\* the partition loop advancing by one (i++) instead of by the chunk size
ChunksFromStepOne(qs, L, start) ==
  IF start < Len(qs)
    THEN <<Slice(qs, start, start + L)>> \o ChunksFromStepOne(qs, L, start + 1)
    ELSE <<>>

RECURSIVE ChunksFrom(_, _, _)
\* for (let i = start; i < queries.length; i += L) chunks.push(queries.slice(i, i + L))
ChunksFrom(qs, L, start) ==
  IF start < Len(qs)
    THEN <<Slice(qs, start, start + L)>> \o ChunksFrom(qs, L, start + L)
    ELSE <<>>

\* the artifact index computed from the position inside the chunk alone
LaunchChunkIndexOnly(chs, c) ==
  /\ sess' = [q \in QueryIds |->
                IF \E k \in 1..Len(chs[c + 1]) : chs[c + 1][k] = q
                  THEN "launch" ELSE sess[q]]
  /\ tmpFile' = [q \in QueryIds |->
                   IF \E k \in 1..Len(chs[c + 1]) : chs[c + 1][k] = q
                     THEN (CHOOSE k \in 1..Len(chs[c + 1]) : chs[c + 1][k] = q) - 1
                     ELSE tmpFile[q]]

\* chunk.map(async (queryObj, index) => ...): every session of chunk number c
\* (0-based) of chs starts (scrapeQuery runs up to its first await, initBrowser)
\* with tmpFile index c * concurrentLimit + index
LaunchChunk(chs, c) ==
  /\ sess' = [q \in QueryIds |->
                IF \E k \in 1..Len(chs[c + 1]) : chs[c + 1][k] = q
                  THEN "launch" ELSE sess[q]]
  /\ tmpFile' = [q \in QueryIds |->
                   IF \E k \in 1..Len(chs[c + 1]) : chs[c + 1][k] = q
                     THEN c * concurrentLimit
                            + (CHOOSE k \in 1..Len(chs[c + 1]) : chs[c + 1][k] = q) - 1
                     ELSE tmpFile[q]]

\* the queries of the chunk being awaited
CurrentChunk == {chunks[ci + 1][k] : k \in 1..Len(chunks[ci + 1])}

\* main: ensureTmpDir() resolves (TMP_DIR exists), scrapeWithConcurrency(queries)
\* is called: the chunks are built and, if there is one, the first chunk's
\* sessions are started
MainStart ==
  /\ mpc = "ensureTmpDir"
  /\ mpc' = "scrape"
  /\ tmpDir' = TRUE
  /\ chunks' = ChunksFrom(queries, concurrentLimit, 0)
  /\ ci' = 0
  /\ IF Len(chunks') > 0
       THEN /\ bpc' = "awaitAll"
            /\ LaunchChunk(ChunksFrom(queries, concurrentLimit, 0), 0)
       ELSE /\ bpc' = "returned"
            /\ UNCHANGED <<sess, tmpFile>>
  /\ UNCHANGED <<queries, concurrentLimit, artifacts, cooldowns, yield, browser>>
  /\ UNCHANGED <<tmpFiles, readPos, finalOutput>>
  /\ UNCHANGED <<retryVars, scrollVars, itemVars, dedupVars, extractVars, csvVars>>

\* main: fs.mkdir rejects with something else than EEXIST
MainMkdirFail ==
  /\ mpc = "ensureTmpDir"
  /\ mpc' = "mkdirFailed"
  /\ UNCHANGED <<queries, concurrentLimit, chunks, ci, bpc, sess, tmpFile, artifacts>>
  /\ UNCHANGED <<cooldowns, yield, browser, mergeVars>>
  /\ UNCHANGED <<retryVars, scrollVars, itemVars, dedupVars, extractVars, csvVars>>

SessionStep(q, to) ==
  /\ sess' = [sess EXCEPT ![q] = to]
  /\ UNCHANGED <<queries, concurrentLimit, chunks, ci, bpc, tmpFile, mpc>>
  /\ UNCHANGED <<cooldowns, mergeVars>>
  /\ UNCHANGED <<retryVars, scrollVars, itemVars, dedupVars, extractVars, csvVars>>

\* scrapeQuery: initBrowser() resolves (launch, newPage, setViewport);
\* searchGoogleMaps is awaited inside the try
LaunchOk(q) ==
  /\ sess[q] = "launch"
  /\ SessionStep(q, "search")
  /\ browser' = [browser EXCEPT ![q] = "open"]
  /\ UNCHANGED <<artifacts, yield>>

\* scrapeQuery: puppeteer.launch() rejects inside initBrowser; line 339 is before
\* the try, so scrapeQuery rejects
LaunchFail(q) ==
  /\ sess[q] = "launch"
  /\ SessionStep(q, "rejected")
  /\ UNCHANGED <<artifacts, yield, browser>>

\* scrapeQuery: puppeteer.launch() resolved, then browser.newPage() or
\* page.setViewport() rejects: initBrowser rejects with the browser running, and
\* scrapeQuery rejects before its try, so its finally never runs
NewPageFail(q) ==
  /\ sess[q] = "launch"
  /\ SessionStep(q, "rejected")
  /\ browser' = [browser EXCEPT ![q] = "open"]
  /\ UNCHANGED <<artifacts, yield>>

\* searchGoogleMaps resolves; scrapeRestaurants is awaited
SearchOk(q) ==
  /\ sess[q] = "search"
  /\ SessionStep(q, "scrape")
  /\ UNCHANGED <<artifacts, yield>>
  /\ UNCHANGED browser

\* searchGoogleMaps rejects: catch, return [] (saveToCSV is never called), then
\* the finally block
SearchFail(q) ==
  /\ sess[q] = "search"
  /\ SessionStep(q, "close")
  /\ yield' = [yield EXCEPT ![q] = "navFailed"]
  /\ UNCHANGED artifacts
  /\ UNCHANGED browser

\* scrapeRestaurants returned a non-empty Dataset and saveToCSV wrote it to tmpFile
SaveOk(q) ==
  /\ sess[q] = "scrape"
  /\ SessionStep(q, "close")
  /\ yield' = [yield EXCEPT ![q] = "saved"]
  /\ artifacts' = artifacts \cup {tmpFile[q]}
  /\ UNCHANGED browser

\* saveToCSV writing a file for an empty Dataset too
SaveNothingWritesEmpty(q) ==
  /\ sess[q] = "scrape"
  /\ SessionStep(q, "close")
  /\ yield' = [yield EXCEPT ![q] = "empty"]
  /\ artifacts' = artifacts \cup {tmpFile[q]}
  /\ UNCHANGED browser

\* scrapeRestaurants returned an empty Dataset: saveToCSV returns without writing
SaveNothing(q) ==
  /\ sess[q] = "scrape"
  /\ SessionStep(q, "close")
  /\ yield' = [yield EXCEPT ![q] = "empty"]
  /\ UNCHANGED artifacts
  /\ UNCHANGED browser

\* fs.writeFile rejects: catch, return [], then the finally block
SaveFail(q) ==
  /\ sess[q] = "scrape"
  /\ SessionStep(q, "close")
  /\ yield' = [yield EXCEPT ![q] = "writeFailed"]
  /\ UNCHANGED artifacts
  /\ UNCHANGED browser

\* finally: browser.close() resolves, scrapeQuery resolves
CloseBrowserOk(q) ==
  /\ sess[q] = "close"
  /\ SessionStep(q, "resolved")
  /\ browser' = [browser EXCEPT ![q] = "closed"]
  /\ UNCHANGED <<artifacts, yield>>

\* finally: browser.close() rejects, which makes scrapeQuery reject; the
\* browser may or may not have gone away
CloseBrowserFail(q) ==
  /\ sess[q] = "close"
  /\ SessionStep(q, "rejected")
  /\ \E b \in {"open", "closed"} : browser' = [browser EXCEPT ![q] = b]
  /\ UNCHANGED <<artifacts, yield>>

\* Promise.all treated as resolved as soon as one session of the chunk resolved
ChunkDoneAny == \E q \in CurrentChunk : sess[q] = "resolved"

\* Promise.all(chunkPromises) resolves when every promise of the chunk resolved
ChunkDone == \A q \in CurrentChunk : sess[q] = "resolved"

\* the cooldown test comparing against chunks.length
MoreChunksInclusive == ci < Len(chunks)

\* if (i < chunks.length - 1)
MoreChunks == ci < Len(chunks) - 1

\* await Promise.all(chunkPromises) resolves: results.push; then either the 5000 ms
\* cooldown is awaited (i < chunks.length - 1) or the loop ends and results is returned
AwaitAllResolve ==
  /\ bpc = "awaitAll"
  /\ ChunkDone
  /\ bpc' = IF MoreChunks THEN "cooldown" ELSE "returned"
  /\ UNCHANGED <<queries, concurrentLimit, chunks, ci, sess, tmpFile, artifacts, mpc>>
  /\ UNCHANGED <<cooldowns, yield, browser, mergeVars>>
  /\ UNCHANGED <<retryVars, scrollVars, itemVars, dedupVars, extractVars, csvVars>>

\* Promise.all rejects as soon as one session of the chunk rejected: the await
\* throws out of scrapeWithConcurrency (its finally only clears the interval)
AwaitAllReject ==
  /\ bpc = "awaitAll"
  /\ \E q \in CurrentChunk : sess[q] = "rejected"
  /\ bpc' = "threw"
  /\ UNCHANGED <<queries, concurrentLimit, chunks, ci, sess, tmpFile, artifacts, mpc>>
  /\ UNCHANGED <<cooldowns, yield, browser, mergeVars>>
  /\ UNCHANGED <<retryVars, scrollVars, itemVars, dedupVars, extractVars, csvVars>>

\* the 5000 ms timer fired: the cooldown is over, i++ and the next chunk's
\* sessions start
CooldownElapsed ==
  /\ bpc = "cooldown"
  /\ cooldowns' = cooldowns + 1
  /\ ci' = ci + 1
  /\ bpc' = "awaitAll"
  /\ LaunchChunk(chunks, ci + 1)
  /\ UNCHANGED <<queries, concurrentLimit, chunks, artifacts, mpc>>
  /\ UNCHANGED <<yield, browser, mergeVars>>
  /\ UNCHANGED <<retryVars, scrollVars, itemVars, dedupVars, extractVars, csvVars>>

\* main going on to the merge without awaiting scrapeWithConcurrency
ScrapeNotAwaited == bpc \in {"awaitAll", "cooldown", "returned"}

\* await scrapeWithConcurrency(queriesData.queries) resolved
ScrapeAwaited == bpc = "returned"

\* main: scrapeWithConcurrency resolved, the merge begins: fs.readdir(TMP_DIR)
\* is issued
MainScrapeReturned ==
  /\ mpc = "scrape"
  /\ ScrapeAwaited
  /\ mpc' = "merge"
  /\ UNCHANGED <<queries, concurrentLimit, chunks, ci, bpc, sess, tmpFile, artifacts>>
  /\ UNCHANGED <<cooldowns, yield, browser, mergeVars>>
  /\ UNCHANGED <<retryVars, scrollVars, itemVars, dedupVars, extractVars, csvVars>>

\* main: scrapeWithConcurrency rejected; main has no catch, only a finally
MainScrapeThrew ==
  /\ mpc = "scrape"
  /\ bpc = "threw"
  /\ mpc' = "scrapeFailed"
  /\ UNCHANGED <<queries, concurrentLimit, chunks, ci, bpc, sess, tmpFile, artifacts>>
  /\ UNCHANGED <<cooldowns, yield, browser, mergeVars>>
  /\ UNCHANGED <<retryVars, scrollVars, itemVars, dedupVars, extractVars, csvVars>>

\* the orders in which a directory listing can name the members of S
Orderings(S) ==
  {s \in [1..Cardinality(S) -> S] :
     \A a, b \in 1..Cardinality(S) : a # b => s[a] # s[b]}

MainFrame ==
  /\ UNCHANGED <<queries, concurrentLimit, chunks, ci, bpc, sess, tmpFile>>
  /\ UNCHANGED <<cooldowns, yield, browser>>
  /\ UNCHANGED <<retryVars, scrollVars, itemVars, dedupVars, extractVars, csvVars>>

\* main: fs.readdir(TMP_DIR) resolves with the artifacts' names in some order (all
\* end with .csv).  With no artifact the loop body never runs and
\* Object.keys(uniqueRestaurants[0]) throws a TypeError; otherwise the first
\* readCsvFile is awaited
MainReaddir ==
  /\ mpc = "merge"
  /\ tmpFiles' \in Orderings(artifacts)
  /\ readPos' = 0
  /\ mpc' = IF artifacts = {} THEN "keysFailed" ELSE "readFile"
  /\ UNCHANGED <<artifacts, tmpDir, finalOutput>>
  /\ MainFrame

\* main: fs.readdir rejects
MainReaddirFail ==
  /\ mpc = "merge"
  /\ mpc' = "mergeFailed"
  /\ UNCHANGED <<artifacts, mergeVars>>
  /\ MainFrame

\* main: readCsvFile(filePath) resolves and its records are appended to
\* allRestaurants; after the last file getUniqueRestaurants runs, csvContent is
\* built (every artifact holds at least one record) and fs.writeFile is awaited
MainReadFileOk ==
  /\ mpc = "readFile"
  /\ readPos' = readPos + 1
  /\ mpc' = IF readPos + 1 < Len(tmpFiles) THEN "readFile" ELSE "write"
  /\ UNCHANGED <<artifacts, tmpDir, tmpFiles, finalOutput>>
  /\ MainFrame

\* main: fs.readFile rejects inside readCsvFile
MainReadFileFail ==
  /\ mpc = "readFile"
  /\ mpc' = "mergeFailed"
  /\ UNCHANGED <<artifacts, mergeVars>>
  /\ MainFrame

\* main: fs.writeFile(FINAL_OUTPUT, csvContent) resolves; fs.rm is awaited
MainWriteOk ==
  /\ mpc = "write"
  /\ finalOutput' = TRUE
  /\ mpc' = "rm"
  /\ UNCHANGED <<artifacts, tmpDir, tmpFiles, readPos>>
  /\ MainFrame

\* main going on to fs.rm although fs.writeFile(FINAL_OUTPUT, ...) rejected
MainWriteFailStillRemoves ==
  /\ mpc = "write"
  /\ mpc' = "rm"
  /\ UNCHANGED <<artifacts, mergeVars>>
  /\ MainFrame

\* main: fs.writeFile(FINAL_OUTPUT, ...) rejects
MainWriteFail ==
  /\ mpc = "write"
  /\ mpc' = "mergeFailed"
  /\ UNCHANGED <<artifacts, mergeVars>>
  /\ MainFrame

\* main: fs.rm(TMP_DIR, { recursive: true }) resolves
MainRmOk ==
  /\ mpc = "rm"
  /\ tmpDir' = FALSE
  /\ artifacts' = {}
  /\ mpc' = "done"
  /\ UNCHANGED <<tmpFiles, readPos, finalOutput>>
  /\ MainFrame

\* main: fs.rm rejects
MainRmFail ==
  /\ mpc = "rm"
  /\ mpc' = "mergeFailed"
  /\ UNCHANGED <<artifacts, mergeVars>>
  /\ MainFrame

InitBatch ==
  /\ RetryIdle /\ func = NoFunc
  /\ ScrollIdle /\ scrollOutcome = "none"
  /\ SessionIdle
  /\ DedupIdle /\ ExtractIdle /\ CsvIdle
  /\ \E n \in 0..MaxQueries : queries = [k \in 1..n |-> k]
  /\ concurrentLimit \in 1..MaxLimit
  /\ chunks = <<>> /\ ci = 0 /\ bpc = "idle"
  /\ sess = [q \in QueryIds |-> "idle"]
  /\ tmpFile = [q \in QueryIds |-> -1]
  /\ artifacts = {} /\ mpc = "ensureTmpDir"
  /\ cooldowns = 0
  /\ yield = [q \in QueryIds |-> "none"]
  /\ browser = [q \in QueryIds |-> "none"]
  /\ tmpDir = FALSE /\ tmpFiles = <<>> /\ readPos = 0 /\ finalOutput = FALSE

NextBatch ==
  \/ MainStart
  \/ MainMkdirFail
  \/ \E q \in QueryIds : LaunchOk(q)
  \/ \E q \in QueryIds : LaunchFail(q)
  \/ \E q \in QueryIds : NewPageFail(q)
  \/ \E q \in QueryIds : SearchOk(q)
  \/ \E q \in QueryIds : SearchFail(q)
  \/ \E q \in QueryIds : SaveOk(q)
  \/ \E q \in QueryIds : SaveNothing(q)
  \/ \E q \in QueryIds : SaveFail(q)
  \/ \E q \in QueryIds : CloseBrowserOk(q)
  \/ \E q \in QueryIds : CloseBrowserFail(q)
  \/ AwaitAllResolve
  \/ AwaitAllReject
  \/ CooldownElapsed
  \/ MainScrapeReturned
  \/ MainScrapeThrew
  \/ MainReaddir
  \/ MainReaddirFail
  \/ MainReadFileOk
  \/ MainReadFileFail
  \/ MainWriteOk
  \/ MainWriteFail
  \/ MainRmOk
  \/ MainRmFail

SpecBatch == InitBatch /\ [][NextBatch]_vars

\* C10: a failure inside one query's session never aborts the batch:
\* scrapeWithConcurrency never throws, main never fails in the harvesting step,
\* and once harvesting is over every query of the list has been run.
C10_FailureNeverAborts ==
  /\ bpc # "threw"
  /\ mpc # "scrapeFailed"
  /\ mpc \in {"merge", "done"} => \A q \in 1..Len(queries) : sess[q] \in Settled

(* ------------------- claims about the BatchOrchestrator ---------------- *)
\* query q belongs to the c-th chunk (1-based) of the partition
InChunk(q, c) == \E k \in 1..Len(chunks[c]) : chunks[c][k] = q
\* query q's session has started
Started(q) == sess[q] # "idle"
\* the sessions that have started and not yet settled
Running == {q \in QueryIds : sess[q] \in {"launch", "search", "scrape", "close"}}

\* C11: no session of chunk N+1 has started unless every session of chunk N has
\* settled and the cooldown that follows chunk N has elapsed (N cooldowns have
\* elapsed before anything of chunk N+1 starts).
C11_ChunksSerialized ==
  \A c \in 1..(Len(chunks) - 1) :
    (\E q \in QueryIds : InChunk(q, c + 1) /\ Started(q))
      => /\ \A p \in QueryIds : InChunk(p, c) => sess[p] \in Settled
         /\ cooldowns >= c

\* a second chunk is running after a first chunk of two sessions settled and one
\* cooldown elapsed; inside the first chunk the second session ended its work
\* with nothing saved while the first one saved
C11_Witness ==
  /\ concurrentLimit = 2 /\ Len(chunks) = 2
  /\ sess[3] = "search"
  /\ sess[1] = "resolved" /\ sess[2] = "resolved"
  /\ yield[1] = "saved" /\ yield[2] = "navFailed"
  /\ cooldowns = 1

\* C12: at every moment the number of sessions started and not yet settled is at
\* most concurrentLimit.
C12_BoundedConcurrency == Cardinality(Running) <= concurrentLimit

\* two sessions of a chunk of two are running at different positions
C12_Witness ==
  /\ concurrentLimit = 2
  /\ sess[1] = "close" /\ sess[2] = "launch"
  /\ Cardinality(Running) = concurrentLimit

RECURSIVE Flatten(_)
\* the concatenation of a sequence of sequences
Flatten(ss) == IF ss = <<>> THEN <<>> ELSE Head(ss) \o Flatten(Tail(ss))

\* C13: once the partition is built it has ceil(n/L) chunks, their concatenation
\* in chunk order is the query list, every chunk is non-empty, every chunk but
\* the last has exactly L queries and the last has between 1 and L.
C13_Partition ==
  bpc # "idle" =>
    /\ Len(chunks) = (Len(queries) + concurrentLimit - 1) \div concurrentLimit
    /\ Flatten(chunks) = queries
    /\ \A c \in 1..Len(chunks) :
         /\ Len(chunks[c]) >= 1
         /\ Len(chunks[c]) <= concurrentLimit
         /\ c < Len(chunks) => Len(chunks[c]) = concurrentLimit

\* three queries with limit 2 are split into a full chunk and a shorter last one
C13_Witness ==
  /\ bpc # "idle"
  /\ Len(queries) = 3 /\ concurrentLimit = 2
  /\ chunks = << <<1, 2>>, <<3>> >>

\* C14: a run over c >= 1 chunks has exactly c-1 cooldowns: none before the first
\* chunk (as many cooldowns have elapsed as chunks precede the current one), one
\* after every chunk but the last, none after the last.
C14_CooldownsBetweenChunks ==
  /\ bpc = "cooldown" => ci < Len(chunks) - 1
  /\ bpc \in {"awaitAll", "cooldown"} => cooldowns = ci
  /\ (bpc = "returned" /\ Len(chunks) >= 1) => cooldowns = Len(chunks) - 1

\* a run over three chunks returned after two cooldowns
C14_Witness ==
  /\ bpc = "returned" /\ Len(chunks) = 3 /\ cooldowns = 2

\* C15: the artifact index handed to a started session is the query's 0-based
\* position in the list, so no two started sessions share an artifact path.
C15_DistinctArtifactPaths ==
  /\ \A q \in QueryIds : Started(q) => tmpFile[q] = q - 1
  /\ \A p, q \in QueryIds : (Started(p) /\ Started(q) /\ p # q) => tmpFile[p] # tmpFile[q]

\* the single session of a second chunk has written to index 2 beside the two
\* artifacts of the first chunk
C15_Witness ==
  /\ concurrentLimit = 2 /\ ci = 1
  /\ tmpFile[3] = 2 /\ artifacts = {0, 1, 2}

C17_MergeAfterHarvest ==
  mpc \in {"merge", "readFile", "write", "rm", "done", "mergeFailed", "keysFailed"} =>
    /\ Running = {}
    /\ \A q \in 1..Len(queries) : sess[q] \in Settled

\* the merge has read the first of two artifacts left by a run over two chunks
C17_Witness ==
  /\ mpc = "readFile" /\ readPos = 1 /\ Len(tmpFiles) = 2
  /\ Len(chunks) = 2

\* C22: when the combined set is empty (TMP_DIR lists no artifact) main skips the
\* write and completes without an error: it never throws out of the step that
\* builds the combined artifact, and it never writes FINAL_OUTPUT then.
C22_EmptyMergeCompletes ==
  /\ mpc # "keysFailed"
  /\ (mpc \in {"write", "rm", "done"} /\ tmpFiles = <<>>) => ~finalOutput

\* C23: TMP_DIR is removed only after FINAL_OUTPUT has been written; when main
\* ends by an error in harvesting or merging before that write, TMP_DIR and the
\* artifacts written into it are still there.
C23_RemoveOnlyAfterWrite ==
  /\ (mpc \notin {"ensureTmpDir", "mkdirFailed"} /\ ~tmpDir) => (finalOutput /\ mpc = "done")
  /\ mpc = "rm" => finalOutput
  /\ (mpc \in {"scrapeFailed", "mergeFailed", "keysFailed"} /\ ~finalOutput) =>
       /\ tmpDir
       /\ artifacts = {tmpFile[q] : q \in {p \in QueryIds : yield[p] = "saved"}}

\* TMP_DIR with its two artifacts was removed after FINAL_OUTPUT had been written
C23_Witness ==
  /\ mpc = "done" /\ finalOutput /\ ~tmpDir
  /\ Len(tmpFiles) = 2 /\ readPos = 2 /\ artifacts = {}

\* main is past the harvesting step, by its return or by its failure
HarvestOver == mpc \notin {"idle", "ensureTmpDir", "mkdirFailed", "scrape"}

\* C26: every query of the list spawns exactly one HarvestSession: scrapeQuery
\* starts for a query only if it never started for it before (never twice), and
\* once harvesting is over it has started for every query (never skipped).
C26_OneSessionPerQuery ==
  /\ [][\A q \in QueryIds :
          (sess'[q] = "launch" /\ sess[q] # "launch") => sess[q] = "idle"]_vars
  /\ [](HarvestOver => \A q \in 1..Len(queries) : Started(q))

\* C34: whenever a session's scrapeQuery has settled, the browser that session
\* launched is not open any more.
C34_BrowserClosedBeforeSettle ==
  \A q \in QueryIds : sess[q] \in Settled => browser[q] # "open"

(* ===================== getUniqueRestaurants (merge) ==================== *)
\* Text is a sequence of characters.  The records main hands to
\* getUniqueRestaurants are the rows of the artifacts: rows written by
\* scraper.mjs carry the columns name, phone, address; rows written by the
\* HarvestSession of scrapeRestaurants carry the decamelized columns name,
\* phone_number, full_address.

Names == {<<"a">>, <<"A">>, <<"a", "-", "b">>}
Addresses == {<<"b">>, <<"b", "-", "b">>}
Phones == {<<"1">>, <<"2">>}

\* scraper.mjs: return { name, phone, website, address }
ScraperRecords ==
  {[name |-> n, phone |-> p, address |-> a] : n \in Names, p \in Phones, a \in Addresses}

\* scrapeRestaurants: decamelizeKeys({ name, phoneNumber, ..., fullAddress, ... })
SessionRecords ==
  {[name |-> n, phone_number |-> p, full_address |-> a] :
     n \in Names, p \in Phones, a \in Addresses}

\* what a template literal prints for a property the object does not have
Undefined == <<"u", "n", "d", "e", "f", "i", "n", "e", "d">>

\* `${restaurant.f}`
Field(restaurant, f) == IF f \in DOMAIN restaurant THEN restaurant[f] ELSE Undefined

LowerChar(c) ==
  IF c = "A" THEN "a" ELSE IF c = "B" THEN "b" ELSE IF c = "I" THEN "i"
  ELSE IF c = "N" THEN "n" ELSE IF c = "U" THEN "u" ELSE c

\* String.prototype.toLowerCase
toLowerCase(s) == [k \in 1..Len(s) |-> LowerChar(s[k])]

\* const key = `${restaurant.name}-${restaurant.address}`.toLowerCase()
Key(restaurant) ==
  toLowerCase(Field(restaurant, "name") \o <<"-">> \o Field(restaurant, "address"))

\* the filter callback keeping the records whose key was seen before
KeepRecordInverted(s, key) == key \in s

\* if (seen.has(key)) return false; ... return true
KeepRecord(s, key) == key \notin s

\* Array.prototype.filter putting a kept record in front of the earlier ones
FilterStepPrepends ==
  /\ dpc \in {"first", "second"}
  /\ dpos < Len(filterIn)
  /\ dpos' = dpos + 1
  /\ seen' = seen \cup {Key(filterIn[dpos + 1])}
  /\ kept' = IF KeepRecord(seen, Key(filterIn[dpos + 1]))
               THEN <<filterIn[dpos + 1]>> \o kept
               ELSE kept
  /\ UNCHANGED <<allRestaurants, dpc, filterIn, uniqueRestaurants, dedupAgain>>
  /\ UNCHANGED <<retryVars, scrollVars, itemVars, orchVars, extractVars, csvVars>>

\* the filter callback visits the next record of the argument
FilterStep ==
  /\ dpc \in {"first", "second"}
  /\ dpos < Len(filterIn)
  /\ dpos' = dpos + 1
  /\ seen' = seen \cup {Key(filterIn[dpos + 1])}
  /\ kept' = IF KeepRecord(seen, Key(filterIn[dpos + 1]))
               THEN Append(kept, filterIn[dpos + 1])
               ELSE kept
  /\ UNCHANGED <<allRestaurants, dpc, filterIn, uniqueRestaurants, dedupAgain>>
  /\ UNCHANGED <<retryVars, scrollVars, itemVars, orchVars, extractVars, csvVars>>

\* getUniqueRestaurants(allRestaurants) returns uniqueRestaurants; the function
\* is then applied to that result
FilterReturnFirst ==
  /\ dpc = "first"
  /\ dpos = Len(filterIn)
  /\ uniqueRestaurants' = kept
  /\ dpc' = "second"
  /\ filterIn' = kept
  /\ dpos' = 0 /\ seen' = {} /\ kept' = <<>>
  /\ UNCHANGED <<allRestaurants, dedupAgain>>
  /\ UNCHANGED <<retryVars, scrollVars, itemVars, orchVars, extractVars, csvVars>>

\* getUniqueRestaurants(uniqueRestaurants) returns
FilterReturnSecond ==
  /\ dpc = "second"
  /\ dpos = Len(filterIn)
  /\ dedupAgain' = kept
  /\ dpc' = "done"
  /\ UNCHANGED <<allRestaurants, filterIn, dpos, seen, kept, uniqueRestaurants>>
  /\ UNCHANGED <<retryVars, scrollVars, itemVars, orchVars, extractVars, csvVars>>

\* the sequences of at most MaxRecords records of R
InputSeqs(R) == UNION {[1..n -> R] : n \in 0..MaxRecords}

\* getUniqueRestaurants is called on the rows of artifacts of one scraper
InitMerge ==
  /\ RetryIdle /\ func = NoFunc
  /\ ScrollIdle /\ scrollOutcome = "none"
  /\ SessionIdle
  /\ OrchIdle /\ ExtractIdle /\ CsvIdle
  /\ allRestaurants \in InputSeqs(ScraperRecords) \cup InputSeqs(SessionRecords)
  /\ dpc = "first" /\ filterIn = allRestaurants /\ dpos = 0
  /\ seen = {} /\ kept = <<>> /\ uniqueRestaurants = <<>> /\ dedupAgain = <<>>

NextMerge ==
  \/ FilterStep
  \/ FilterReturnFirst
  \/ FilterReturnSecond

SpecMerge == InitMerge /\ [][NextMerge]_vars

(* ------------------------ claims about the merge ----------------------- *)
\* the full address of a record, whichever column carries it
AddressOf(r) == IF "address" \in DOMAIN r THEN r.address ELSE r.full_address

\* equal lowercase name and equal lowercase address
SameListing(a, b) ==
  /\ toLowerCase(a.name) = toLowerCase(b.name)
  /\ toLowerCase(AddressOf(a)) = toLowerCase(AddressOf(b))

\* the call on allRestaurants has returned
FirstPassDone == dpc \in {"second", "done"}

\* C18: for all records a, b of the input with equal lowercase name and equal
\* lowercase address, the result holds exactly one record of that listing, and it
\* is the first record of that listing in read order.
C18_FirstOfEqualSurvives ==
  FirstPassDone =>
    \A a, b \in 1..Len(allRestaurants) :
      (a < b /\ SameListing(allRestaurants[a], allRestaurants[b])) =>
        LET first == CHOOSE f \in 1..Len(allRestaurants) :
                       /\ SameListing(allRestaurants[f], allRestaurants[a])
                       /\ \A g \in 1..(f - 1) :
                            ~SameListing(allRestaurants[g], allRestaurants[a])
            hits == {k \in 1..Len(uniqueRestaurants) :
                       SameListing(uniqueRestaurants[k], allRestaurants[a])}
        IN /\ Cardinality(hits) = 1
           /\ \A k \in hits : uniqueRestaurants[k] = allRestaurants[first]

\* C19: a record is removed only when an earlier-read record has the same
\* lowercase name and the same lowercase full address: a record with no such
\* predecessor is in the result.
C19_OnlySameListingRemoved ==
  FirstPassDone =>
    \A b \in 1..Len(allRestaurants) :
      (\A a \in 1..(b - 1) : ~SameListing(allRestaurants[a], allRestaurants[b]))
        => \E k \in 1..Len(uniqueRestaurants) : uniqueRestaurants[k] = allRestaurants[b]

\* C20: applying getUniqueRestaurants to its own result returns that result
\* unchanged.
C20_DedupIdempotent ==
  dpc = "done" => dedupAgain = uniqueRestaurants

\* a three-record input lost one record in the first call and none in the second
C20_Witness ==
  /\ dpc = "done"
  /\ Len(allRestaurants) = 3 /\ Len(uniqueRestaurants) = 2
  /\ dedupAgain = uniqueRestaurants

\* the positions of allRestaurants that hold the first record of their key
FirstOfKey ==
  {k \in 1..Len(allRestaurants) :
     \A g \in 1..(k - 1) : Key(allRestaurants[g]) # Key(allRestaurants[k])}

RECURSIVE Pick(_, _, _)
\* the subsequence of s at the positions of P that are at least k, in order
Pick(s, P, k) ==
  IF k > Len(s) THEN <<>>
  ELSE (IF k \in P THEN <<s[k]>> ELSE <<>>) \o Pick(s, P, k + 1)

\* C21: the CombinedDataset is the subsequence of the records in read order made
\* of the first record of every key, in their read order; a surviving record is
\* also the first record of its (lowercase name, lowercase address) listing.
C21_FirstOccurrencesInReadOrder ==
  FirstPassDone =>
    /\ uniqueRestaurants = Pick(allRestaurants, FirstOfKey, 1)
    /\ \A k \in FirstOfKey : \A g \in 1..(k - 1) :
         ~SameListing(allRestaurants[g], allRestaurants[k])

\* of three records the first and the third survive, in that order, the second
\* repeating the first one's key
C21_Witness ==
  /\ FirstPassDone
  /\ Len(allRestaurants) = 3
  /\ FirstOfKey = {1, 3}
  /\ uniqueRestaurants = <<allRestaurants[1], allRestaurants[3]>>

(* ============ extractDetailedInfo and the push that follows ============ *)
\* The detail container is seen as its four controls; a control is <<>> when
\* the selector finds nothing and <<text>> (text possibly empty) when it finds
\* an element.  An object is a function from property names to texts.  The
\* fields derived from the address (suburb, state, postcode, country) are left out.

NA == <<"N", "/", "A">>

HeadingTexts == {<<>>, <<"x">>}
AddressTexts == {<<>>, <<"y">>}
PhoneTexts == {<<>>, <<" ">>, <<"1", " ", "2">>}
WebsiteHrefs == {<<"w">>}

\* the results of querySelector: nothing, or an element with one of the texts
Found(texts) == {<<>>} \cup {<<t>> : t \in texts}

Containers ==
  [heading : Found(HeadingTexts), address : Found(AddressTexts),
   phone : Found(PhoneTexts), website : Found(WebsiteHrefs)]

\* a missing control printed as the text "undefined" instead of the sentinel
OrNAKeepsUndefined(found) ==
  IF found = <<>> THEN Undefined ELSE IF found[1] = <<>> THEN NA ELSE found[1]

\* element?.textContent || 'N/A'
OrNA(found) == IF found = <<>> \/ found[1] = <<>> THEN NA ELSE found[1]

\* text.replace(/\s+/g, '')
StripSpaces(found) ==
  IF found = <<>> THEN <<>> ELSE <<SelectSeq(found[1], LAMBDA c : c # " ")>>

KeyName == <<"n", "a", "m", "e">>
KeyPhoneNumber == <<"p", "h", "o", "n", "e", "N", "u", "m", "b", "e", "r">>
KeyWebsiteUrl == <<"w", "e", "b", "s", "i", "t", "e", "U", "r", "l">>
KeyFullAddress == <<"f", "u", "l", "l", "A", "d", "d", "r", "e", "s", "s">>
KeyPlaceId == <<"p", "l", "a", "c", "e", "I", "d">>

\* extractDetailedInfo for a container that exists: { name, phoneNumber,
\* websiteUrl, fullAddress }
extractDetailedInfo(c) ==
  [k \in {KeyName, KeyPhoneNumber, KeyWebsiteUrl, KeyFullAddress} |->
     IF k = KeyName THEN OrNA(c.heading)
     ELSE IF k = KeyPhoneNumber THEN OrNA(StripSpaces(c.phone))
     ELSE IF k = KeyWebsiteUrl THEN OrNA(c.website)
     ELSE OrNA(c.address)]

\* the briefInfo of the item, taken from the feed row
briefInfo == [k \in {KeyPlaceId} |-> <<"p">>]

\* { ...a, ...b }: the properties of b win; spreading null adds nothing
Spread(a, b) ==
  [k \in (DOMAIN a) \cup (DOMAIN b) |-> IF k \in DOMAIN b THEN b[k] ELSE a[k]]

RECURSIVE Underscored(_)
\* str.replace(/([A-Z])/g, '_$1')
Underscored(str) ==
  IF str = <<>> THEN <<>>
  ELSE (IF LowerChar(Head(str)) # Head(str) THEN <<"_", Head(str)>> ELSE <<Head(str)>>)
         \o Underscored(Tail(str))

\* decamelize(str)
decamelize(str) == toLowerCase(Underscored(str))

\* decamelizeKeys(obj)
decamelizeKeys(obj) ==
  [dk \in {decamelize(k) : k \in DOMAIN obj} |->
     obj[CHOOSE k \in DOMAIN obj : decamelize(k) = dk]]

\* const detailedInfo = await this.page.evaluate(extractDetailedInfo);
\* const newItem = decamelizeKeys({...detailedInfo, ...briefInfo})
ExtractEvaluate ==
  /\ epc = "evaluate"
  /\ detailedInfo' = IF mainDiv = <<>> THEN <<>> ELSE <<extractDetailedInfo(mainDiv[1])>>
  /\ newItem' = IF mainDiv = <<>>
                  THEN <<decamelizeKeys(briefInfo)>>
                  ELSE <<decamelizeKeys(Spread(extractDetailedInfo(mainDiv[1]), briefInfo))>>
  /\ epc' = "push"
  /\ UNCHANGED <<mainDiv, itemVars>>
  /\ UNCHANGED <<retryVars, scrollVars, orchVars, dedupVars, csvVars>>

\* if (detailedInfo) { restaurantsData.push(newItem); ... }
ExtractPush ==
  /\ epc = "push"
  /\ restaurantsData' = IF detailedInfo # <<>>
                          THEN Append(restaurantsData, newItem[1])
                          ELSE restaurantsData
  /\ epc' = "pushed"
  /\ UNCHANGED <<mainDiv, detailedInfo, newItem>>
  /\ UNCHANGED <<pc, nLinks, i, panel, returned,
                 attempted, openFailed, closeTried, closeFailed, pushLog, events>>
  /\ UNCHANGED <<retryVars, scrollVars, orchVars, dedupVars, csvVars>>

\* the activation succeeded and page.evaluate(extractDetailedInfo) is issued,
\* the page showing any second container or none
InitExtract ==
  /\ RetryIdle /\ func = NoFunc
  /\ ScrollIdle /\ scrollOutcome = "none"
  /\ SessionIdle
  /\ OrchIdle /\ DedupIdle /\ CsvIdle
  /\ mainDiv \in {<<>>} \cup {<<c>> : c \in Containers}
  /\ detailedInfo = <<>> /\ newItem = <<>> /\ epc = "evaluate"

NextExtract ==
  \/ ExtractEvaluate
  \/ ExtractPush

SpecExtract == InitExtract /\ [][NextExtract]_vars

\* the property of the record that holds the control's text
RecordKey(control) ==
  IF control = "heading" THEN <<"n", "a", "m", "e">>
  ELSE IF control = "address" THEN <<"f", "u", "l", "l", "_", "a", "d", "d", "r", "e", "s", "s">>
  ELSE IF control = "phone" THEN <<"p", "h", "o", "n", "e", "_", "n", "u", "m", "b", "e", "r">>
  ELSE <<"w", "e", "b", "s", "i", "t", "e", "_", "u", "r", "l">>

\* C28: for an item whose detail container is there, whatever subset of the
\* name, address, phone and website controls is absent, one record is appended
\* and it holds "N/A" for every absent control.
C28_AbsentFieldsAreNA ==
  (epc = "pushed" /\ mainDiv # <<>>) =>
    /\ Len(restaurantsData) = 1
    /\ \A control \in {"heading", "address", "phone", "website"} :
         /\ RecordKey(control) \in DOMAIN restaurantsData[1]
         /\ mainDiv[1][control] = <<>> => restaurantsData[1][RecordKey(control)] = NA

\* a container with a heading and a website but no address and no phone control
\* gave a record with the heading, the link and two sentinels
C28_Witness ==
  /\ epc = "pushed" /\ mainDiv # <<>> /\ Len(restaurantsData) = 1
  /\ mainDiv[1].heading = << <<"x">> >> /\ mainDiv[1].website = << <<"w">> >>
  /\ mainDiv[1].address = <<>> /\ mainDiv[1].phone = <<>>
  /\ restaurantsData[1][RecordKey("heading")] = <<"x">>
  /\ restaurantsData[1][RecordKey("address")] = NA
  /\ restaurantsData[1][RecordKey("phone")] = NA

(* ===================== saveToCSV and readCsvFile ====================== *)
\* Text is a sequence of one-character strings.  An object is the sequence of
\* its <<key, value>> entries in insertion order; a value is a string
\* <<"string", text>>, null, or (after reading) undefined.

MaxRows == 2

Comma == ","
NewLine == "\n"
\* the characters String.prototype.trim strips, as far as the texts here use them
WhiteSpace == {" ", NewLine}

Null == <<"null">>
Undef == <<"undefined">>
Str(text) == <<"string", text>>

\* Array.prototype.join on one element: null and undefined give the empty string
JoinText(v) == IF v \in {Null, Undef} THEN <<>> ELSE v[2]

RECURSIVE Join(_, _)
\* texts.join(sep)
Join(texts, sep) ==
  IF texts = <<>> THEN <<>>
  ELSE IF Len(texts) = 1 THEN texts[1]
  ELSE texts[1] \o <<sep>> \o Join(Tail(texts), sep)

RECURSIVE Split(_, _)
\* text.split(sep): the empty text gives one empty piece
Split(text, sep) ==
  IF \A k \in 1..Len(text) : text[k] # sep
    THEN <<text>>
    ELSE LET k == CHOOSE j \in 1..Len(text) :
                    text[j] = sep /\ \A m \in 1..(j - 1) : text[m] # sep
         IN  <<SubSeq(text, 1, k - 1)>> \o Split(SubSeq(text, k + 1, Len(text)), sep)

RECURSIVE Trim(_)
\* text.trim()
Trim(text) ==
  IF text = <<>> THEN <<>>
  ELSE IF text[1] \in WhiteSpace THEN Trim(Tail(text))
  ELSE IF text[Len(text)] \in WhiteSpace THEN Trim(SubSeq(text, 1, Len(text) - 1))
  ELSE text

ObjectKeys(obj) == [k \in 1..Len(obj) |-> obj[k][1]]
ObjectValues(obj) == [k \in 1..Len(obj) |-> obj[k][2]]

\* obj[header] = value: an existing key keeps its place and takes the new value
Assign(obj, header, value) ==
  IF \E k \in 1..Len(obj) : obj[k][1] = header
    THEN [k \in 1..Len(obj) |-> IF obj[k][1] = header THEN <<header, value>> ELSE obj[k]]
    ELSE Append(obj, <<header, value>>)

\* [Object.keys(data[0]).join(','), ...data.map(item => Object.values(item).join(','))].join('\n')
CsvText(d) ==
  Join(<<Join(ObjectKeys(d[1]), Comma)>>
         \o [k \in 1..Len(d) |->
               Join([j \in 1..Len(d[k]) |-> JoinText(ObjectValues(d[k])[j])], Comma)],
       NewLine)

RECURSIVE Reduce(_, _, _, _)
\* headerArray.reduce((obj, header, index) => { obj[header] = values[index]; ... }, {})
Reduce(headerArray, values, index, obj) ==
  IF index > Len(headerArray) THEN obj
  ELSE Reduce(headerArray, values, index + 1,
              Assign(obj, headerArray[index],
                     IF index <= Len(values) THEN Str(values[index]) ELSE Undef))

\* readCsvFile on a file holding content
ParseCsv(content) ==
  LET lines == Split(Trim(content), NewLine)
      headerArray == Split(lines[1], Comma)
      rows == Tail(lines)
  IN  [k \in 1..Len(rows) |-> Reduce(headerArray, Split(rows[k], Comma), 1, <<>>)]

\* saveToCSV(data, filename): nothing is written for an empty array
SaveToCSV ==
  /\ cpc = "save"
  /\ IF Len(data) = 0
       THEN cpc' = "noFile" /\ UNCHANGED csvContent
       ELSE cpc' = "saved" /\ csvContent' = <<CsvText(data)>>
  /\ UNCHANGED <<data, readBack>>
  /\ UNCHANGED <<retryVars, scrollVars, itemVars, orchVars, dedupVars, extractVars>>

\* readCsvFile(filePath) on the file saveToCSV wrote
ReadCsvFile ==
  /\ cpc = "saved"
  /\ readBack' = <<ParseCsv(csvContent[1])>>
  /\ cpc' = "read"
  /\ UNCHANGED <<data, csvContent>>
  /\ UNCHANGED <<retryVars, scrollVars, itemVars, orchVars, dedupVars, extractVars>>

\* field names and values without comma and newline
FieldNames == <<<<"n">>, <<"p", "h">>>>
FieldTexts == {<<>>, <<"x">>, <<"x", " ">>, <<" ", "x">>}
FieldValues == {Str(t) : t \in FieldTexts} \cup {Null}

\* the arrays of at most MaxRows objects over the first w field names
Datasets(w) ==
  {[k \in 1..n |-> [j \in 1..w |-> <<FieldNames[j], vals[k][j]>>]] :
     n \in 0..MaxRows, vals \in [1..MaxRows -> [1..w -> FieldValues]]}

InitCsv ==
  /\ RetryIdle /\ func = NoFunc
  /\ ScrollIdle /\ scrollOutcome = "none"
  /\ SessionIdle
  /\ OrchIdle /\ DedupIdle /\ ExtractIdle
  /\ data \in Datasets(1) \cup Datasets(2)
  /\ csvContent = <<>> /\ readBack = <<>> /\ cpc = "save"

NextCsv ==
  \/ SaveToCSV
  \/ ReadCsvFile

SpecCsv == InitCsv /\ [][NextCsv]_vars

\* C35: reading back the artifact written for a non-empty array of objects with
\* the same fields, no comma and no newline in names and values, gives as many
\* objects, in the same order, with the same field names and the values as
\* join wrote them.
C35_RoundTrip ==
  cpc = "read" =>
    /\ Len(readBack[1]) = Len(data)
    /\ \A k \in 1..Len(data) :
         /\ k <= Len(readBack[1]) => ObjectKeys(readBack[1][k]) = ObjectKeys(data[k])
         /\ k <= Len(readBack[1]) =>
              ObjectValues(readBack[1][k])
                = [j \in 1..Len(data[k]) |-> Str(JoinText(ObjectValues(data[k])[j]))]

(* ============================ termination ============================= *)
\* One scrapeRestaurants run or one batch run, with the scheduling the code
\* relies on: every awaited page call, wait, timer or file operation settles
\* (a wait resolves or hits its own timeout), and the continuation then runs.
\* The page itself owes nothing: the feed may or may not change.

\* a step of the session's own code, as opposed to a change of the page
HarvestStep == Next /\ ~Scrolling(FeedChange) /\ ~Scrolling(MarkerShow)

InitLive == Init \/ InitBatch

NextLive == Next \/ NextBatch

SpecLive == InitLive /\ [][NextLive]_vars /\ WF_vars(HarvestStep) /\ WF_vars(NextBatch)

\* main has ended, normally or by a rejection, and no scrapeQuery is pending
BatchOver ==
  /\ mpc \in {"done", "mkdirFailed", "scrapeFailed", "mergeFailed", "keysFailed"}
  /\ \A q \in QueryIds : sess[q] \in Settled \cup {"idle"}

\* C32: when every wait completes or times out, a session always terminates and
\* so does a batch: scrapeRestaurants eventually returns and main eventually
\* ends with every started scrapeQuery settled; the scroller counts at most 50
\* iterations, no executeWithRetry of an item invokes its step more than 3
\* times, the loop index only moves to the next item, and the feed is
\* enumerated once.
C32_AlwaysTerminates ==
  /\ <>(pc = "returned" \/ BatchOver)
  /\ [](scrollAttempts <= maxAttempts /\ (pc \in RetryPcs => calls <= DefaultRetries))
  /\ [][/\ i' # i => (i' = i + 1 \/ pc' = "returned")
        /\ nLinks' # nLinks => pc = "enumerate"
        /\ attempted \subseteq attempted']_vars

\* a session that used up the 50 scroll iterations and visited every item of a
\* full feed has returned
C32_Witness ==
  /\ pc = "returned"
  /\ scrollOutcome = "Exhausted"
  /\ nLinks = MaxItems /\ attempted = 1..MaxItems
  /\ closeTried # {} /\ openFailed # {}

====
